---- MODULE Spec2Model ----
(***************************************************************************)
(* The two scalarized Upper-Confidence-Bound acquisition functions of      *)
(* tutorials/custom_acquisition.ipynb:                                     *)
(*   qScalarizedUpperConfidenceBound  (Monte-Carlo, cell 1)                *)
(*   ScalarizedUpperConfidenceBound   (analytic, cell 2)                   *)
(*                                                                         *)
(* Numbers.  Tensor entries are integers.  Weights, means, covariances and *)
(* beta are integers of a fixed unit (the weights <<1, 1>> stand for       *)
(* [0.5, 0.5] when the weight unit is one half; the arithmetic below never *)
(* needs the unit).  A square root is taken to Res sub-units and rounded   *)
(* down, so a score is an integer number of 1/Res units; the square root   *)
(* of a negative number is NaN, as torch's is.  float64 holds every        *)
(* integer, float32 only the multiples of Grain: converting to float32     *)
(* rounds to the nearest multiple, converting to float64 is exact.         *)
(*                                                                         *)
(* The names math and torch, which the notebook uses without importing,    *)
(* are taken to be the standard modules.  A call's input X carries what    *)
(* the external model and sampler return for it (posterior mean,           *)
(* covariance, draws), in X's own dtype.                                   *)
(***************************************************************************)
EXTENDS Integers, Sequences, FiniteSets, TLC

VARIABLES
    args,   \* args[i]: what the constructor of analytic scorer i was given
    ucb,    \* ucb[i]: the buffers and flag analytic scorer i holds now
    qargs,  \* what the constructor of the Monte-Carlo scorer was given
    qucb,   \* the buffers the Monte-Carlo scorer holds now
    last    \* the most recent forward call: scorer, input, result, steps run

vars == <<args, ucb, qargs, qucb, last>>

(* ------------------------------ bounds -------------------------------- *)
Res == 4          \* sub-units a square root is resolved to
Grain == 2        \* spacing of the float32-representable integers
MaxTDims == 2     \* most t-batch dimensions of an input
MaxB == 2         \* largest size of one t-batch dimension
DimD == 1         \* d, the dimension of a design point
MaxW == 1         \* weight entries range over -1..MaxW
MaxBeta == 4      \* beta ranges over 0..MaxBeta
MaxQ == 2         \* most design points of a q-batch
NDraws == 2       \* n, the number of Monte-Carlo draws of the sampler

DTypes == {"float64", "float32"}
Instances == {1, 2}

(* ------------------------------ numbers ------------------------------- *)
Num(x) == [nan |-> FALSE, v |-> x]
NaN == [nan |-> TRUE, v |-> 0]

RECURSIVE SqrtIter(_, _)
SqrtIter(n, r) == IF (r + 1) * (r + 1) > n THEN r ELSE SqrtIter(n, r + 1)

\* Tensor.sqrt / math.sqrt of x, in 1/Res units; NaN below zero.
Sqrt(x) == IF x < 0 THEN NaN ELSE Num(SqrtIter(x * Res * Res, 0))

\* a + d and a - d for a finite a (in 1/Res units) and a possibly-NaN d.
Plus(a, d) == IF d.nan THEN NaN ELSE Num(a + d.v)
Minus(a, d) == IF d.nan THEN NaN ELSE Num(a - d.v)

Abs(x) == IF x < 0 THEN -x ELSE x

\* The nearest float32-representable integer (a half rounds up).
Round32(x) == ((2 * x + Grain) \div (2 * Grain)) * Grain

\* Tensor.to(X): the tensor in X's dtype.
To(t, dtype) ==
    IF t.dtype = dtype THEN t
    ELSE [val |-> IF dtype = "float32" THEN Round32(t.val) ELSE t.val,
          dtype |-> dtype]

(* ------------------------------ tensors ------------------------------- *)
RECURSIVE Numel(_)
Numel(shape) == IF Len(shape) = 0 THEN 1 ELSE Head(shape) * Numel(Tail(shape))

\* v.matmul(w) of two vectors of one length.
RECURSIVE Dot(_, _)
Dot(a, b) == IF Len(a) = 0 THEN 0 ELSE Head(a) * Head(b) + Dot(Tail(a), Tail(b))

\* torch.bmm(covs, weights) for one batch element: an o x o by o x 1 product.
Bmm(cov, w) == [i \in 1..Len(cov) |-> Dot(cov[i], w)]

\* q_batch_mode_transform: a q-batch dimension (q = 1) before the last one.
QBatchModeTransform(shape) ==
    SubSeq(shape, 1, Len(shape) - 1) \o <<1, shape[Len(shape)]>>

\* The decorator left out: the input is passed on as it came.
TBatchModeTransformNone(shape) == shape

\* t_batch_mode_transform: an explicit t-batch dimension when there is none.
TBatchModeTransform(shape) == IF Len(shape) < 3 THEN <<1>> \o shape ELSE shape

Raised(line, steps) ==
    [ok |-> FALSE, err |-> line, shape |-> <<>>, vals |-> <<>>, log |-> steps]
Returned(shape, vals, steps) ==
    [ok |-> TRUE, err |-> 0, shape |-> shape, vals |-> vals, log |-> steps]

(* --------------------- ScalarizedUpperConfidenceBound ----------------- *)
\* __init__: the flag and the two registered buffers.
UCBInit(a) == [beta |-> a.beta, weights |-> a.weights, maximize |-> a.maximize]

\* means.matmul(self.weights) for one t-batch.
ScalarizedMean(w, mean) == Dot(mean, w)

\* bmm(weights_transpose, bmm(covs, weights)) for one t-batch.
ScalarizedVariance(w, cov) == Dot(w, Bmm(cov, w))

\* beta left out of the product under the square root.
DeltaNoBeta(beta, variance) == Sqrt(variance)

\* (self.beta.expand_as(scalarized_mean) * scalarized_variance).sqrt()
Delta(beta, variance) == Sqrt(beta * variance)

\* The maximize flag ignored: delta is always added.
UCBValueAlwaysPlus(maximize, beta, w, p) ==
    Plus(ScalarizedMean(w, p.mean) * Res, Sqrt(beta * ScalarizedVariance(w, p.cov)))

\* The value returned for one t-batch.
UCBValue(maximize, beta, w, p) ==
    LET scalarized_mean == ScalarizedMean(w, p.mean)
        delta == Delta(beta, ScalarizedVariance(w, p.cov))
    IN  IF maximize THEN Plus(scalarized_mean * Res, delta)
        ELSE Minus(scalarized_mean * Res, delta)

\* Whether weights.permute(0, 2, 1) accepts the expanded weights: it needs
\* exactly three dimensions, batch_shape + (o, 1) with one batch dimension.
PermuteOk(batch_shape) == Len(batch_shape) + 2 = 3

\* The buffer self.beta after line 125.
BetaAfter(self, X) == To(self.beta, X.dtype)

\* forward(X): what the call returns or where it raises, and the steps run.
UCBResult(self, X) ==
    LET shape == TBatchModeTransform(QBatchModeTransform(X.shape))
        beta == BetaAfter(self, X)
        batch_shape == SubSeq(shape, 1, Len(shape) - 2)
        o == Len(X.post[1].mean)
        w == self.weights
    IN  IF w.dtype # X.dtype \/ Len(w.val) # o
        THEN Raised(129, <<"beta.to", "posterior">>)
        ELSE IF ~PermuteOk(batch_shape)
        THEN Raised(135, <<"beta.to", "posterior", "matmul", "expand">>)
        ELSE Returned(batch_shape,
                      [t \in 1..Numel(batch_shape) |->
                          UCBValue(self.maximize, beta.val, w.val, X.post[t])],
                      <<"beta.to", "posterior", "matmul", "expand",
                        "permute", "bmm", "sqrt">>)

UCBForward(i, X) ==
    /\ ucb' = [ucb EXCEPT ![i].beta = BetaAfter(ucb[i], X)]
    /\ last' = [scorer |-> "ucb", inst |-> i, X |-> X,
                out |-> UCBResult(ucb[i], X)]
    /\ UNCHANGED <<args, qargs, qucb>>

(* -------------------- qScalarizedUpperConfidenceBound ----------------- *)
\* __init__: the two registered buffers.
QUCBInit(a) == [beta |-> a.beta, weights |-> a.weights]

PiHalfMilli == 1571   \* math.pi / 2, in thousandths

\* math.sqrt(self.beta * math.pi / 2), in 1/Res units.
Multiplier(beta) == SqrtIter((beta * PiHalfMilli * Res * Res) \div 1000, 0)

\* One entry of ucb_samples, in 1/Res units.
UcbSample(k, scalarized_mean, scalarized_sample) ==
    scalarized_mean * Res + k * Abs(scalarized_sample - scalarized_mean)

\* Tensor.max(dim=-1)[0] over one row.
RECURSIVE MaxOver(_)
MaxOver(s) ==
    IF Len(s) = 1 THEN s[1]
    ELSE LET m == MaxOver(Tail(s)) IN IF Head(s) >= m THEN Head(s) ELSE m

RECURSIVE SumOver(_)
SumOver(s) == IF Len(s) = 0 THEN 0 ELSE Head(s) + SumOver(Tail(s))

\* Tensor.mean(dim=0) over one column, rounded down to the 1/Res unit.
MeanOver(s) == SumOver(s) \div Len(s)

\* The reductions in the other order: the mean over the draws first, then
\* the maximum over the points.
ReduceMeanFirst(ucb_samples) ==
    MaxOver([q \in 1..Len(ucb_samples[1]) |->
                MeanOver([n \in 1..Len(ucb_samples) |-> ucb_samples[n][q]])])

RECURSIVE MinOver(_)
MinOver(s) ==
    IF Len(s) = 1 THEN s[1]
    ELSE LET m == MinOver(Tail(s)) IN IF Head(s) <= m THEN Head(s) ELSE m

\* The minimum over the points in place of the maximum.
ReduceMin(ucb_samples) ==
    MeanOver([n \in 1..Len(ucb_samples) |-> MinOver(ucb_samples[n])])

\* ucb_samples.max(dim=-1)[0].mean(dim=0) for one t-batch.
Reduce(ucb_samples) ==
    MeanOver([n \in 1..Len(ucb_samples) |-> MaxOver(ucb_samples[n])])

\* The value returned for one t-batch; pts[q] is design point q's posterior
\* mean and the sampler's draws at it.
QUCBValue(beta, w, pts) ==
    LET k == Multiplier(beta)
        n_draws == Len(pts[1].draws)
        ucb_samples ==
            [n \in 1..n_draws |->
                [q \in 1..Len(pts) |->
                    UcbSample(k, Dot(pts[q].mean, w), Dot(pts[q].draws[n], w))]]
    IN  Reduce(ucb_samples)

\* forward(X): what the call returns or where it raises, and the steps run.
QUCBResult(self, X) ==
    LET shape == TBatchModeTransform(X.shape)
        batch_shape == SubSeq(shape, 1, Len(shape) - 2)
        o == Len(X.post[1][1].mean)
        w == self.weights
    IN  IF w.dtype # X.dtype \/ Len(w.val) # o
        THEN Raised(66, <<"posterior", "sampler">>)
        ELSE Returned(batch_shape,
                      [t \in 1..Numel(batch_shape) |->
                          Num(QUCBValue(self.beta.val, w.val, X.post[t]))],
                      <<"posterior", "sampler", "matmul", "matmul",
                        "ucb_samples", "max", "mean">>)

QUCBForward(X) ==
    /\ last' = [scorer |-> "qucb", inst |-> 0, X |-> X,
                out |-> QUCBResult(qucb, X)]
    /\ UNCHANGED <<args, ucb, qargs, qucb>>

(* ------------------------------- inputs ------------------------------- *)
NoCall ==
    [scorer |-> "none", inst |-> 0,
     X |-> [shape |-> <<>>, dtype |-> "float64", post |-> <<>>],
     out |-> Returned(<<>>, <<>>, <<>>)]

\* The t-batch shapes (), (b), (b1, b2), ...
TShapes == UNION {[1..k -> 1..MaxB] : k \in 0..MaxTDims}

\* The external model: its posterior over two outcomes at design points
\* 1..4.  Point 1 is the worked example; point 3's covariance is not
\* positive semi-definite (a numerically damaged estimate).
ModelTable ==
    << [mean |-> <<1, 3>>,  cov |-> << <<4, 0>>, <<0, 1>> >>],
       [mean |-> <<0, -1>>, cov |-> << <<1, 1>>, <<1, 1>> >>],
       [mean |-> <<2, 0>>,  cov |-> << <<0, 1>>, <<1, 0>> >>],
       [mean |-> <<-1, 1>>, cov |-> << <<0, 0>>, <<0, 0>> >>] >>

PointAt(k) == ((k - 1) % Len(ModelTable)) + 1

\* The external sampler: draw n at design point x.
DrawAt(x, n) ==
    LET mu == ModelTable[x].mean
    IN  <<mu[1] + ((n + x) % 3) - 1, mu[2] + ((n * x) % 3) - 1>>

SampledAt(x) ==
    [mean |-> ModelTable[x].mean, draws |-> [n \in 1..NDraws |-> DrawAt(x, n)]]

\* Analytic inputs of shape (b) x d over consecutive design points.
UCBInput(tshape, dtype, first) ==
    [shape |-> tshape \o <<DimD>>, dtype |-> dtype,
     post |-> [t \in 1..Numel(tshape) |-> ModelTable[PointAt(first + t - 1)]]]

\* Monte-Carlo inputs of shape (b) x q x d over consecutive design points.
QUCBInput(tshape, q, dtype, first) ==
    [shape |-> tshape \o <<q, DimD>>, dtype |-> dtype,
     post |-> [t \in 1..Numel(tshape) |->
                 [j \in 1..q |-> SampledAt(PointAt(first + (t - 1) * q + j - 1))]]]

Tensor(val, dtype) == [val |-> val, dtype |-> dtype]

\* A beta a caller can hold: any value in float64, a representable one in float32.
Betas ==
    {Tensor(b, dt) : b \in 0..MaxBeta, dt \in DTypes} \
        {Tensor(b, "float32") : b \in {x \in 0..MaxBeta : Round32(x) # x}}

(* ------------------- Spec: scorer objects over many calls ------------- *)
ObjWeights == {<<1, 1>>, <<1, -1>>, <<1>>, <<1, 1, 1>>}
ObjUCBInputs ==
    {UCBInput(ts, dt, f) : ts \in {<<>>, <<2>>}, dt \in DTypes, f \in {1, 3}}
ObjQUCBInputs ==
    {QUCBInput(ts, q, dt, 1) : ts \in {<<>>, <<2>>}, q \in {1, 2}, dt \in DTypes}

Init ==
    /\ \E w \in ObjWeights, wdt \in DTypes, b \in Betas, mx \in BOOLEAN :
          /\ args = [i \in Instances |->
                       [beta |-> b, weights |-> Tensor(w, wdt), maximize |-> mx]]
          /\ qargs = [beta |-> b, weights |-> Tensor(w, wdt)]
    /\ ucb = [i \in Instances |-> UCBInit(args[i])]
    /\ qucb = QUCBInit(qargs)
    /\ last = NoCall

Next ==
    \/ \E i \in Instances, X \in ObjUCBInputs : UCBForward(i, X)
    \/ \E X \in ObjQUCBInputs : QUCBForward(X)

Spec == Init /\ [][Next]_vars

(* ------------- SpecUCB: the analytic score as a function -------------- *)
\* Two scorers that differ in beta alone (beta of 1 <= beta of 2, both given
\* in float64); one input is scored by scorer 1 and then by scorer 2, or by
\* one of them.
WideWeights == [1..2 -> -1..MaxW]
WidePosteriors ==
    {[mean |-> mu, cov |-> << <<a, c>>, <<c, b>> >>] :
        mu \in {<<1, 3>>, <<-1, 0>>}, a \in {0, 4}, b \in {0, 1}, c \in {-1, 0, 1}}

\* The same posterior with the two outcomes exchanged.
Swapped(p) ==
    [mean |-> <<p.mean[2], p.mean[1]>>,
     cov |-> << <<p.cov[2][2], p.cov[2][1]>>, <<p.cov[1][2], p.cov[1][1]>> >>]

WideUCBInputs ==
    {[shape |-> <<2, DimD>>, dtype |-> dt, post |-> <<p, Swapped(p)>>] :
        p \in WidePosteriors, dt \in DTypes}

InitUCB ==
    /\ \E w \in WideWeights, wdt \in DTypes, b1 \in 0..MaxBeta, b2 \in 0..MaxBeta,
          mx \in BOOLEAN :
          /\ b1 <= b2
          /\ args = [i \in Instances |->
                       [beta |-> Tensor(IF i = 1 THEN b1 ELSE b2, "float64"),
                        weights |-> Tensor(w, wdt), maximize |-> mx]]
    /\ qargs = [beta |-> args[1].beta, weights |-> args[1].weights]
    /\ ucb = [i \in Instances |-> UCBInit(args[i])]
    /\ qucb = QUCBInit(qargs)
    /\ last = NoCall

NextUCB ==
    \E i \in Instances, X \in WideUCBInputs :
        /\ \/ last = NoCall
           \/ last.scorer = "ucb" /\ last.inst = 1 /\ i = 2 /\ X = last.X
        /\ UCBForward(i, X)

SpecUCB == InitUCB /\ [][NextUCB]_vars

\* w . mean and w^T cov w over two outcomes, written out.
M2(w, p) == w[1] * p.mean[1] + w[2] * p.mean[2]
V2(w, p) ==
    w[1] * w[1] * p.cov[1][1] + w[1] * w[2] * (p.cov[1][2] + p.cov[2][1])
        + w[2] * w[2] * p.cov[2][2]

\* d is the square root of x, to 1/Res and rounded down.
IsRoot(d, x) == d >= 0 /\ d * d <= x * Res * Res /\ x * Res * Res < (d + 1) * (d + 1)

AnalyticReturned == last.scorer = "ucb" /\ last.out.ok

\* C1: every t-batch's analytic score is m + delta (maximize) or m - delta
\* (minimize), with m = weights . mean, v = weights^T cov weights and
\* delta = sqrt(beta * v), beta being the scorer's beta buffer in the input's
\* dtype; where beta * v is negative the square root, and with it the score,
\* is NaN.
C1_AnalyticFormula ==
    AnalyticReturned =>
        \A t \in 1..Len(last.out.vals) :
            LET a == args[last.inst]
                p == last.X.post[t]
                m == M2(a.weights.val, p)
                bv == ucb[last.inst].beta.val * V2(a.weights.val, p)
                s == last.out.vals[t]
            IN  /\ ucb[last.inst].beta.dtype = last.X.dtype
                /\ ucb[last.inst].beta.val \in
                       {a.beta.val, Round32(a.beta.val)}
                /\ IF bv < 0 THEN s.nan
                   ELSE /\ ~s.nan
                        /\ IsRoot(IF a.maximize THEN s.v - m * Res
                                  ELSE m * Res - s.v, bv)

\* The worked example: weights [0.5, 0.5] (two halves), mean [1, 3],
\* cov diag(4, 1), beta 4, maximize: m = 4 halves, v = 5 quarters,
\* delta^2 = 20 quarters = 5.
C1_Example ==
    /\ AnalyticReturned
    /\ args[last.inst].weights.val = <<1, 1>>
    /\ args[last.inst].beta.val = 4
    /\ args[last.inst].maximize
    /\ last.X.post[1] = [mean |-> <<1, 3>>, cov |-> << <<4, 0>>, <<0, 1>> >>]
    /\ M2(<<1, 1>>, last.X.post[1]) = 4
    /\ V2(<<1, 1>>, last.X.post[1]) = 5
    /\ IsRoot(last.out.vals[1].v - 4 * Res, 20)

\* C3: where the scalarized variance is negative it is clamped to zero, so
\* the call returns the scalarized mean, a finite score.
C3_NegativeVarianceClamped ==
    AnalyticReturned =>
        \A t \in 1..Len(last.out.vals) :
            LET a == args[last.inst]
                p == last.X.post[t]
            IN  V2(a.weights.val, p) < 0 =>
                    last.out.vals[t] = Num(M2(a.weights.val, p) * Res)

\* a >= b between scores; no comparison with NaN is true.
Geq(a, b) == ~a.nan /\ ~b.nan /\ a.v >= b.v

\* C8: with mean, covariance and weights fixed and beta1 <= beta2, the
\* maximize-mode score at beta2 is >= the one at beta1 and the minimize-mode
\* score at beta2 is <= the one at beta1.
C8_MonotoneInBeta ==
    [][(/\ last.scorer = "ucb" /\ last.inst = 1 /\ last.out.ok
        /\ last'.scorer = "ucb" /\ last'.inst = 2 /\ last'.out.ok
        /\ last'.X = last.X)
         => \A t \in 1..Len(last.out.vals) :
               IF args[1].maximize
               THEN Geq(last'.out.vals[t], last.out.vals[t])
               ELSE Geq(last.out.vals[t], last'.out.vals[t])]_vars

\* C10: with beta = 0 the analytic score is exactly the scalarized mean
\* weights . mean, in maximize and in minimize mode.
C10_ZeroBetaIsMean ==
    (AnalyticReturned /\ args[last.inst].beta.val = 0) =>
        \A t \in 1..Len(last.out.vals) :
            last.out.vals[t] = Num(M2(args[last.inst].weights.val, last.X.post[t]) * Res)

C10_Witness ==
    /\ AnalyticReturned
    /\ args[last.inst].beta.val = 0
    /\ ~args[last.inst].maximize
    /\ V2(args[last.inst].weights.val, last.X.post[1]) > 0
    /\ last.out.vals[1] = Num(M2(args[last.inst].weights.val, last.X.post[1]) * Res)

(* ------------ SpecMC: the Monte-Carlo score as a function ------------- *)
\* One call of the Monte-Carlo scorer on a q-batch whose points each have a
\* posterior mean and NDraws draws; the second t-batch holds the same points
\* with the two outcomes exchanged.
DrawVals == << <<0, 1>>, <<2, 2>> >>

\* The draws at one point: one value throughout, or the two in alternation.
DrawPattern(first, alternate) ==
    [n \in 1..NDraws |->
        DrawVals[IF alternate /\ n % 2 = 0 THEN 3 - first ELSE first]]

WideSampled ==
    {[mean |-> mu, draws |-> DrawPattern(f, alt)] :
        mu \in {<<1, 3>>, <<-1, 0>>}, f \in {1, 2}, alt \in BOOLEAN}

SwappedSampled(pt) ==
    [mean |-> <<pt.mean[2], pt.mean[1]>>,
     draws |-> [n \in 1..Len(pt.draws) |-> <<pt.draws[n][2], pt.draws[n][1]>>]]

WideQUCBInputs ==
    UNION {{[shape |-> <<2, q, DimD>>, dtype |-> "float64",
             post |-> <<pts, [j \in 1..q |-> SwappedSampled(pts[j])]>>] :
               pts \in [1..q -> WideSampled]} : q \in 1..MaxQ}

WideQWeights == {<<1, 1>>, <<1, -1>>, <<0, 1>>, <<-1, 0>>}

InitMC ==
    /\ \E w \in WideQWeights, b \in 0..MaxBeta :
          qargs = [beta |-> Tensor(b, "float64"), weights |-> Tensor(w, "float64")]
    /\ args = [i \in Instances |->
                 [beta |-> qargs.beta, weights |-> qargs.weights, maximize |-> TRUE]]
    /\ ucb = [i \in Instances |-> UCBInit(args[i])]
    /\ qucb = QUCBInit(qargs)
    /\ last = NoCall

NextMC == \E X \in WideQUCBInputs : last = NoCall /\ QUCBForward(X)

SpecMC == InitMC /\ [][NextMC]_vars

MCReturned == last.scorer = "qucb" /\ last.out.ok

\* x . w over two outcomes, written out.
D2(x, w) == x[1] * w[1] + x[2] * w[2]

\* ucb[n, q] of one t-batch, given the multiplier k (in 1/Res units).
UcbAt(k, w, pts, n, q) ==
    Res * D2(pts[q].mean, w) + k * Abs(D2(pts[q].draws[n], w) - D2(pts[q].mean, w))

\* k is sqrt(beta * pi / 2), to 1/Res and rounded down.
IsMultiplier(k, beta) ==
    /\ 1000 * k * k <= beta * PiHalfMilli * Res * Res
    /\ beta * PiHalfMilli * Res * Res < 1000 * (k + 1) * (k + 1)

\* b is the largest ucb[n, q] over the points q of draw n.
IsBest(b, k, w, pts, n) ==
    /\ \E q \in 1..Len(pts) : b = UcbAt(k, w, pts, n, q)
    /\ \A q \in 1..Len(pts) : UcbAt(k, w, pts, n, q) <= b

RECURSIVE Total(_, _)
Total(f, n) == IF n = 0 THEN 0 ELSE f[n] + Total(f, n - 1)

\* r is the mean over the draws of the per-draw best, rounded down.
IsMeanOfBest(r, k, w, pts) ==
    LET n_draws == Len(pts[1].draws)
        ucbs(n) == {UcbAt(k, w, pts, n, q) : q \in 1..Len(pts)}
        best == [n \in 1..n_draws |->
                    CHOOSE b \in ucbs(n) : IsBest(b, k, w, pts, n)]
    IN  /\ n_draws * r <= Total(best, n_draws)
        /\ Total(best, n_draws) < n_draws * (r + 1)

\* C2: every t-batch's Monte-Carlo score is the mean over the draws n of the
\* maximum over the points q of
\*   scalarized_mean[t,q] + sqrt(beta*pi/2) * |scalarized_samples[n,t,q] - scalarized_mean[t,q]|,
\* the maximum taken inside each draw, samples and mean scalarized by the
\* same weights.
C2_MonteCarloFormula ==
    MCReturned =>
        \A t \in 1..Len(last.out.vals) :
            \E k \in 0..(2 * Res * (qargs.beta.val + 1)) :
                /\ IsMultiplier(k, qargs.beta.val)
                /\ ~last.out.vals[t].nan
                /\ IsMeanOfBest(last.out.vals[t].v, k, qargs.weights.val, last.X.post[t])

\* The mean over the draws of one point's ucb[n, q], rounded down.
MeanAt(k, w, pts, q) ==
    LET n_draws == Len(pts[1].draws)
    IN  Total([n \in 1..n_draws |-> UcbAt(k, w, pts, n, q)], n_draws) \div n_draws

\* A returned two-point call whose score exceeds every point's own mean over
\* the draws: the maximum was taken before the mean.
C2_Witness ==
    /\ MCReturned
    /\ Len(last.X.post[1]) = 2
    /\ qargs.beta.val > 0
    /\ \E k \in 0..(2 * Res * (qargs.beta.val + 1)) :
          /\ IsMultiplier(k, qargs.beta.val)
          /\ \A q \in 1..2 :
                last.out.vals[1].v > MeanAt(k, qargs.weights.val, last.X.post[1], q)

\* The input that holds point j of t-batch t alone, as a q = 1 batch.
SinglePoint(X, t, j) ==
    [shape |-> <<1, DimD>>, dtype |-> X.dtype, post |-> << <<X.post[t][j]>> >>]

\* C9: for q > 1 the score of a q-point batch is >= the score of each of its
\* points evaluated alone (a q = 1 batch) under the same draws, mean, weights
\* and beta, hence >= the best of them.
C9_BatchAtLeastBestSingle ==
    (MCReturned /\ Len(last.X.post[1]) > 1) =>
        \A t \in 1..Len(last.out.vals) :
            \A j \in 1..Len(last.X.post[t]) :
                LET single == QUCBResult(qucb, SinglePoint(last.X, t, j))
                IN  single.ok /\ Geq(last.out.vals[t], single.vals[1])

C9_Witness ==
    /\ MCReturned
    /\ Len(last.X.post[1]) = 2
    /\ \A j \in 1..2 :
          last.out.vals[1].v > QUCBResult(qucb, SinglePoint(last.X, 1, j)).vals[1].v

(* ------------- SpecShape: one call over every input shape ------------- *)
InitShape ==
    /\ \E w \in {<<1, 1>>, <<1>>}, wdt \in DTypes, mx \in BOOLEAN :
          /\ args = [i \in Instances |->
                       [beta |-> Tensor(1, "float64"), weights |-> Tensor(w, wdt),
                        maximize |-> mx]]
          /\ qargs = [beta |-> Tensor(1, "float64"), weights |-> Tensor(w, wdt)]
    /\ ucb = [i \in Instances |-> UCBInit(args[i])]
    /\ qucb = QUCBInit(qargs)
    /\ last = NoCall

NextShape ==
    \/ \E ts \in TShapes, dt \in DTypes, f \in {1, 2} :
          last = NoCall /\ UCBForward(1, UCBInput(ts, dt, f))
    \/ \E ts \in TShapes, q \in 1..MaxQ, dt \in DTypes :
          last = NoCall /\ QUCBForward(QUCBInput(ts, q, dt, 1))

SpecShape == InitShape /\ [][NextShape]_vars

\* The t-batch dimensions of the input as the caller supplied it, and as a
\* single-element batch when there are none.
InputTShape ==
    IF last.scorer = "ucb" THEN SubSeq(last.X.shape, 1, Len(last.X.shape) - 1)
    ELSE SubSeq(last.X.shape, 1, Len(last.X.shape) - 2)
BatchShapeOf(tshape) == IF tshape = <<>> THEN <<1>> ELSE tshape

\* The call's input is valid: the weights have the posterior's outcome count
\* and dtype.
ValidCall ==
    /\ last.scorer # "none"
    /\ LET w == IF last.scorer = "ucb" THEN ucb[last.inst].weights ELSE qucb.weights
           o == IF last.scorer = "ucb" THEN Len(last.X.post[1].mean)
                ELSE Len(last.X.post[1][1].mean)
       IN  w.dtype = last.X.dtype /\ Len(w.val) = o

OneScorePerTBatch ==
    /\ last.out.ok
    /\ last.out.shape = BatchShapeOf(InputTShape)
    /\ Len(last.out.vals) = Numel(InputTShape)

\* C7 as stated: every valid input, whatever its t-batch dimensions, gets one
\* score per t-batch from each scorer.
C7_OneScorePerTBatch == ValidCall => OneScorePerTBatch

\* C7 as amended: the Monte-Carlo scorer returns one score per t-batch for
\* every valid input; the analytic scorer does for an input with at most one
\* t-batch dimension, and raises (line 135) for one with two or more.
C7_OneScorePerTBatchAmended ==
    ValidCall =>
        IF last.scorer = "qucb" \/ Len(InputTShape) <= 1
        THEN OneScorePerTBatch
        ELSE ~last.out.ok /\ last.out.err = 135

C7_Witness ==
    /\ ValidCall
    /\ last.scorer = "ucb"
    /\ InputTShape = <<>>
    /\ last.out.shape = <<1>>
    /\ Len(last.out.vals) = 1

(* --------------------------- claims on Spec --------------------------- *)
\* C4: a call whose weights' length differs from the outcome count ends in
\* an error raised before any step of the call has run.
C4_MismatchFailsFast ==
    LET w == IF last.scorer = "ucb" THEN ucb[last.inst].weights ELSE qucb.weights
        o == IF last.scorer = "ucb" THEN Len(last.X.post[1].mean)
             ELSE Len(last.X.post[1][1].mean)
    IN  (last.scorer # "none" /\ Len(w.val) # o) =>
            ~last.out.ok /\ last.out.log = <<>>

\* C5: after any sequence of calls every scorer holds the weights, beta and
\* maximize flag its constructor was given.
C5_StoredParametersUnchanged ==
    /\ \A i \in Instances : ucb[i] = UCBInit(args[i])
    /\ qucb = QUCBInit(qargs)

====
